---- MODULE Spec2Model ----
(***************************************************************************)
(* Model of the lazy stream library in Streams.h: the extractor chain      *)
(* (SequenceStreamExtractor and the seven wrapping extractors), the        *)
(* BaseStreamInterface handle with its chaining and consuming methods,     *)
(* and from().                                                             *)
(*                                                                         *)
(* An extractor is a record; a wrapping extractor holds its upstream in    *)
(* the field "source" by value, as the C++ structs do.  Every operation    *)
(* on an extractor returns the extractor after the call together with the  *)
(* calls it made (ev), so that a handle's state is replaced as a whole.    *)
(***************************************************************************)
EXTENDS Integers, Sequences, FiniteSets, TLC

\* ------------------------------------------------------------------ bounds
MaxLen == 2        \* longest container
MaxCount == 1      \* largest count given to skip(), take() and nth()
MaxDepth == 2      \* most stages wrapped around the source extractor
MaxHandles == 2    \* named stream handles alive at once

Values == {1, 2}                      \* element values of the container
Predicates == {"isEven", "isOdd"}     \* predicates handed to the library
MapFuncs == {"plusOne"}               \* functions handed to map()

\* the largest size_t, what --x gives for x = 0
SizeMax == 2147483647

VARIABLES container, handles, meta, last

vars == <<container, handles, meta, last>>

\* ------------------------------------------------- callables of the caller
ApplyPredicate(p, x) ==
    IF p = "isEven" THEN x % 2 = 0 ELSE x % 2 = 1

ApplyMapFunc(f, x) ==
    IF f = "plusOne" THEN x + 1 ELSE x

\* --x on a size_t
DecSizeT(x) == IF x = 0 THEN SizeMax ELSE x - 1

\* Optional<T>
nullopt == <<>>
Some(v) == <<v>>

\* --------------------------------------------------------------- extractors
RECURSIVE Depth(_)
Depth(e) == IF e.kind = "Sequence" THEN 1 ELSE 1 + Depth(e.source)

\* SequenceStreamExtractor(b, e): iterators are positions 1 .. Len+1
SequenceStreamExtractor(c) ==
    [kind |-> "Sequence", current |-> 1, next |-> 1, begin |-> 1, end |-> Len(c) + 1]

SkipFirstStreamExtractor(e, count) ==
    [kind |-> "SkipFirst", source |-> e, skipCount |-> count]

SkipWhileStreamExtractor(e, p) ==
    [kind |-> "SkipWhile", source |-> e, predicate |-> p, skipping |-> TRUE]

TakeStreamExtractor(e, count) ==
    [kind |-> "Take", source |-> e, limit |-> count]

TakeWhileStreamExtractor(e, p) ==
    [kind |-> "TakeWhile", source |-> e, predicate |-> p, taking |-> TRUE]

FilterStreamExtractor(e, p) ==
    [kind |-> "Filter", source |-> e, predicate |-> p]

MapStreamExtractor(e, m) ==
    [kind |-> "Map", source |-> e, mapFunc |-> m, value |-> 0]

InspectStreamExtractor(e, i) ==
    [kind |-> "Inspect", source |-> e, inspector |-> i]

\* auto x = <call>; ...: the value of a call, named for the code that follows
Bind(x, Rest(_)) == Rest(x)

RECURSIVE advance(_), get(_), SkipFirstLoop(_), SkipWhileLoop(_), FilterLoop(_, _),
          SkipFirstLoopPreDecrement(_), anyLoopNoShortCircuit(_, _, _)

\* SequenceStreamExtractor::get_impl: the element under `current`
SequenceGet(e) ==
    [v |-> container[e.current], e |-> e, ev |-> <<>>]

\* SequenceStreamExtractor::advance_impl
SequenceAdvance(e) ==
    IF e.next # e.end
    THEN [ok |-> TRUE, e |-> [e EXCEPT !.current = e.next, !.next = e.next + 1], ev |-> <<>>]
    ELSE [ok |-> FALSE, e |-> e, ev |-> <<>>]

\* get_impl of SkipFirst, SkipWhile, Take, TakeWhile, Filter: source.get()
PassGet(e) ==
    Bind(get(e.source), LAMBDA g :
        [v |-> g.v, e |-> [e EXCEPT !.source = g.e], ev |-> g.ev])

\* the while loop of SkipFirstStreamExtractor::advance_impl and its tail
SkipFirstLoop(e) ==
    IF e.skipCount # 0
    THEN Bind(advance(e.source), LAMBDA r :
             IF ~r.ok
             THEN [ok |-> FALSE, ev |-> r.ev,
                   e |-> [e EXCEPT !.skipCount = DecSizeT(@), !.source = r.e]]
             ELSE Bind(SkipFirstLoop([e EXCEPT !.skipCount = DecSizeT(@), !.source = r.e]),
                       LAMBDA rest : [rest EXCEPT !.ev = r.ev \o @]))
    ELSE Bind(advance(e.source), LAMBDA r :
             [ok |-> r.ok, e |-> [e EXCEPT !.source = r.e], ev |-> r.ev])

\* mutant: while (--skipCount != 0)
SkipFirstLoopPreDecrement(e) ==
    IF DecSizeT(e.skipCount) # 0
    THEN Bind(advance(e.source), LAMBDA r :
             IF ~r.ok
             THEN [ok |-> FALSE, ev |-> r.ev,
                   e |-> [e EXCEPT !.skipCount = DecSizeT(@), !.source = r.e]]
             ELSE Bind(SkipFirstLoopPreDecrement(
                           [e EXCEPT !.skipCount = DecSizeT(@), !.source = r.e]),
                       LAMBDA rest : [rest EXCEPT !.ev = r.ev \o @]))
    ELSE Bind(advance(e.source), LAMBDA r :
             [ok |-> r.ok, ev |-> r.ev,
              e |-> [e EXCEPT !.skipCount = DecSizeT(@), !.source = r.e]])

\* mutant: do { if (!source.advance()) return false; } while (skipCount-- != 0);
\* return true;
RECURSIVE SkipFirstAdvancePostDecrement(_)
SkipFirstAdvancePostDecrement(e) ==
    Bind(advance(e.source), LAMBDA r :
        IF ~r.ok
        THEN [ok |-> FALSE, e |-> [e EXCEPT !.source = r.e], ev |-> r.ev]
        ELSE IF e.skipCount # 0
             THEN Bind(SkipFirstAdvancePostDecrement(
                           [e EXCEPT !.skipCount = DecSizeT(@), !.source = r.e]),
                       LAMBDA rest : [rest EXCEPT !.ev = r.ev \o @])
             ELSE [ok |-> TRUE, ev |-> r.ev,
                   e |-> [e EXCEPT !.skipCount = DecSizeT(@), !.source = r.e]])

SkipFirstAdvancePreDecrement(e) == SkipFirstLoopPreDecrement(e)

SkipFirstAdvance(e) == SkipFirstLoop(e)

\* while (skipping && source.advance()) skipping = predicate(*source.get());
SkipWhileLoop(e) ==
    IF e.skipping
    THEN Bind(advance(e.source), LAMBDA r :
             IF r.ok
             THEN Bind(get(r.e), LAMBDA g :
                      Bind(SkipWhileLoop([e EXCEPT !.source = g.e,
                                                   !.skipping = ApplyPredicate(e.predicate, g.v)]),
                           LAMBDA rest :
                               [rest EXCEPT !.ev = r.ev \o g.ev
                                       \o <<<<"predicate", Depth(e), g.v>>>> \o @]))
             ELSE [e |-> [e EXCEPT !.source = r.e], ev |-> r.ev])
    ELSE [e |-> e, ev |-> <<>>]

\* mutant: after the skipping loop, return source.advance()
SkipWhileAdvanceDropsFirst(e) ==
    Bind(IF e.skipping THEN SkipWhileLoop(e) ELSE [e |-> e, ev |-> <<>>], LAMBDA l :
        Bind(advance(l.e.source), LAMBDA r :
            [ok |-> r.ok, e |-> [l.e EXCEPT !.source = r.e], ev |-> l.ev \o r.ev]))

\* mutant: the skipping flag is set again on every call
SkipWhileAdvanceRestarts(e) ==
    Bind(SkipWhileLoop([e EXCEPT !.skipping = TRUE]), LAMBDA l :
        [ok |-> ~l.e.skipping, e |-> l.e, ev |-> l.ev])

\* SkipWhileStreamExtractor::advance_impl
SkipWhileAdvance(e) ==
    IF e.skipping
    THEN Bind(SkipWhileLoop(e), LAMBDA l :
             [ok |-> ~l.e.skipping, e |-> l.e, ev |-> l.ev])
    ELSE Bind(advance(e.source), LAMBDA r :
             [ok |-> r.ok, e |-> [e EXCEPT !.source = r.e], ev |-> r.ev])

\* mutant: if (--limit != 0)
TakeAdvancePreDecrement(e) ==
    IF DecSizeT(e.limit) # 0
    THEN Bind(advance(e.source), LAMBDA r :
             [ok |-> r.ok, e |-> [e EXCEPT !.limit = DecSizeT(@), !.source = r.e], ev |-> r.ev])
    ELSE [ok |-> FALSE, e |-> [e EXCEPT !.limit = DecSizeT(@)], ev |-> <<>>]

\* mutant: --limit also when the limit is already zero
TakeAdvanceWraps(e) ==
    IF e.limit # 0
    THEN Bind(advance(e.source), LAMBDA r :
             [ok |-> r.ok, e |-> [e EXCEPT !.limit = DecSizeT(@), !.source = r.e], ev |-> r.ev])
    ELSE [ok |-> FALSE, e |-> [e EXCEPT !.limit = DecSizeT(@)], ev |-> <<>>]

\* TakeStreamExtractor::advance_impl
TakeAdvance(e) ==
    IF e.limit # 0
    THEN Bind(advance(e.source), LAMBDA r :
             [ok |-> r.ok, e |-> [e EXCEPT !.limit = DecSizeT(@), !.source = r.e], ev |-> r.ev])
    ELSE [ok |-> FALSE, e |-> e, ev |-> <<>>]

\* mutant: taking = source.advance() && predicate(*source.get());
TakeWhileAdvanceNotSticky(e) ==
    Bind(advance(e.source), LAMBDA r :
        IF r.ok
        THEN Bind(get(r.e), LAMBDA g :
                 [ok |-> ApplyPredicate(e.predicate, g.v),
                  e |-> [e EXCEPT !.source = g.e,
                                  !.taking = ApplyPredicate(e.predicate, g.v)],
                  ev |-> r.ev \o g.ev \o <<<<"predicate", Depth(e), g.v>>>>])
        ELSE [ok |-> FALSE, e |-> [e EXCEPT !.source = r.e, !.taking = FALSE], ev |-> r.ev])

\* mutant: the element that fails the predicate is still emitted
TakeWhileAdvanceInclusive(e) ==
    IF e.taking
    THEN Bind(advance(e.source), LAMBDA r :
             IF r.ok
             THEN Bind(get(r.e), LAMBDA g :
                      [ok |-> TRUE,
                       e |-> [e EXCEPT !.source = g.e,
                                       !.taking = ApplyPredicate(e.predicate, g.v)],
                       ev |-> r.ev \o g.ev \o <<<<"predicate", Depth(e), g.v>>>>])
             ELSE [ok |-> FALSE, e |-> [e EXCEPT !.source = r.e, !.taking = FALSE],
                   ev |-> r.ev])
    ELSE [ok |-> FALSE, e |-> e, ev |-> <<>>]

\* mutant: taking &= source.advance() && predicate(*source.get());
\* the upstream is advanced before the flag is looked at
TakeWhileAdvanceEager(e) ==
    Bind(advance(e.source), LAMBDA r :
        IF r.ok
        THEN Bind(get(r.e), LAMBDA g :
                 [ok |-> e.taking /\ ApplyPredicate(e.predicate, g.v),
                  e |-> [e EXCEPT !.source = g.e,
                                  !.taking = @ /\ ApplyPredicate(e.predicate, g.v)],
                  ev |-> r.ev \o g.ev \o <<<<"predicate", Depth(e), g.v>>>>])
        ELSE [ok |-> FALSE, e |-> [e EXCEPT !.source = r.e, !.taking = FALSE], ev |-> r.ev])

\* mutant: return taking && source.advance() && predicate(*source.get());
\* a failing element is not remembered
TakeWhileAdvanceForgets(e) ==
    IF e.taking
    THEN Bind(advance(e.source), LAMBDA r :
             IF r.ok
             THEN Bind(get(r.e), LAMBDA g :
                      [ok |-> ApplyPredicate(e.predicate, g.v),
                       e |-> [e EXCEPT !.source = g.e],
                       ev |-> r.ev \o g.ev \o <<<<"predicate", Depth(e), g.v>>>>])
             ELSE [ok |-> FALSE, e |-> [e EXCEPT !.source = r.e, !.taking = FALSE],
                   ev |-> r.ev])
    ELSE [ok |-> FALSE, e |-> e, ev |-> <<>>]

\* TakeWhileStreamExtractor::advance_impl:
\*   taking &= taking && source.advance() && predicate(*source.get());
\*   return taking;
\* && evaluates source.advance() only when taking, and the predicate only
\* when that advance returned true
TakeWhileAdvance(e) ==
    IF e.taking
    THEN Bind(advance(e.source), LAMBDA r :
             IF r.ok
             THEN Bind(get(r.e), LAMBDA g :
                      [ok |-> e.taking /\ ApplyPredicate(e.predicate, g.v),
                       e |-> [e EXCEPT !.source = g.e,
                                       !.taking = @ /\ ApplyPredicate(e.predicate, g.v)],
                       ev |-> r.ev \o g.ev \o <<<<"predicate", Depth(e), g.v>>>>])
             ELSE [ok |-> FALSE, e |-> [e EXCEPT !.source = r.e, !.taking = FALSE],
                   ev |-> r.ev])
    ELSE [ok |-> FALSE, e |-> e, ev |-> <<>>]

\* the while loop of FilterStreamExtractor::advance_impl; element is *element
FilterLoop(e, element) ==
    IF ~ApplyPredicate(e.predicate, element)
    THEN Bind(advance(e.source), LAMBDA r :
             IF r.ok
             THEN Bind(get(r.e), LAMBDA g :
                      Bind(FilterLoop([e EXCEPT !.source = g.e], g.v), LAMBDA rest :
                          [rest EXCEPT !.ev = <<<<"predicate", Depth(e), element>>>>
                                                \o r.ev \o g.ev \o @]))
             ELSE [ok |-> FALSE, e |-> [e EXCEPT !.source = r.e],
                   ev |-> <<<<"predicate", Depth(e), element>>>> \o r.ev])
    ELSE [ok |-> TRUE, e |-> e, ev |-> <<<<"predicate", Depth(e), element>>>>]

\* mutant: if (!predicate(*element)) return source.advance();
FilterAdvanceOneRetry(e) ==
    Bind(advance(e.source), LAMBDA r :
        IF ~r.ok
        THEN [ok |-> FALSE, e |-> [e EXCEPT !.source = r.e], ev |-> r.ev]
        ELSE Bind(get(r.e), LAMBDA g :
                 IF ~ApplyPredicate(e.predicate, g.v)
                 THEN Bind(advance(g.e), LAMBDA r2 :
                          [ok |-> r2.ok, e |-> [e EXCEPT !.source = r2.e],
                           ev |-> r.ev \o g.ev \o <<<<"predicate", Depth(e), g.v>>>> \o r2.ev])
                 ELSE [ok |-> TRUE, e |-> [e EXCEPT !.source = g.e],
                       ev |-> r.ev \o g.ev \o <<<<"predicate", Depth(e), g.v>>>>]))

\* mutant: the element is fetched again for the first test of the loop:
\* auto element = source.get(); while (!predicate(*(element = source.get())))
FilterAdvanceGetsTwice(e) ==
    Bind(advance(e.source), LAMBDA r :
        IF ~r.ok
        THEN [ok |-> FALSE, e |-> [e EXCEPT !.source = r.e], ev |-> r.ev]
        ELSE Bind(get(r.e), LAMBDA g :
                 Bind(get(g.e), LAMBDA g2 :
                     Bind(FilterLoop([e EXCEPT !.source = g2.e], g2.v), LAMBDA l :
                         [l EXCEPT !.ev = r.ev \o g.ev \o g2.ev \o @]))))

\* FilterStreamExtractor::advance_impl
FilterAdvance(e) ==
    Bind(advance(e.source), LAMBDA r :
        IF ~r.ok
        THEN [ok |-> FALSE, e |-> [e EXCEPT !.source = r.e], ev |-> r.ev]
        ELSE Bind(get(r.e), LAMBDA g :
                 Bind(FilterLoop([e EXCEPT !.source = g.e], g.v), LAMBDA l :
                     [l EXCEPT !.ev = r.ev \o g.ev \o @])))

\* advance_impl of Map and Inspect: return source.advance()
PassAdvance(e) ==
    Bind(advance(e.source), LAMBDA r :
        [ok |-> r.ok, e |-> [e EXCEPT !.source = r.e], ev |-> r.ev])

\* mutant: the slot is returned as it was before this get
MapGetStale(e) ==
    Bind(get(e.source), LAMBDA g :
        [v |-> e.value,
         e |-> [e EXCEPT !.source = g.e, !.value = ApplyMapFunc(e.mapFunc, g.v)],
         ev |-> g.ev \o <<<<"mapFunc", Depth(e), g.v>>>>])

\* MapStreamExtractor::get_impl: value = mapFunc(*source.get()); return &value
MapGet(e) ==
    Bind(get(e.source), LAMBDA g :
        [v |-> ApplyMapFunc(e.mapFunc, g.v),
         e |-> [e EXCEPT !.source = g.e, !.value = ApplyMapFunc(e.mapFunc, g.v)],
         ev |-> g.ev \o <<<<"mapFunc", Depth(e), g.v>>>>])

\* InspectStreamExtractor::get_impl
InspectGet(e) ==
    Bind(get(e.source), LAMBDA g :
        [v |-> g.v, e |-> [e EXCEPT !.source = g.e],
         ev |-> g.ev \o <<<<"inspector", Depth(e), g.v>>>>])

\* StreamExtractor::get: static dispatch to the derived get_impl
get(e) ==
    Bind(CASE e.kind = "Sequence" -> SequenceGet(e)
           [] e.kind = "Map" -> MapGet(e)
           [] e.kind = "Inspect" -> InspectGet(e)
           [] OTHER -> PassGet(e),
         LAMBDA r : [r EXCEPT !.ev = <<<<"get", Depth(e)>>>> \o @])

\* StreamExtractor::advance: static dispatch to the derived advance_impl
advance(e) ==
    Bind(CASE e.kind = "Sequence" -> SequenceAdvance(e)
           [] e.kind = "SkipFirst" -> SkipFirstAdvance(e)
           [] e.kind = "SkipWhile" -> SkipWhileAdvance(e)
           [] e.kind = "Take" -> TakeAdvance(e)
           [] e.kind = "TakeWhile" -> TakeWhileAdvance(e)
           [] e.kind = "Filter" -> FilterAdvance(e)
           [] OTHER -> PassAdvance(e),
         LAMBDA r : [r EXCEPT !.ev = <<<<"advance", Depth(e), r.ok>>>> \o @])

\* ------------------------------------------------------ BaseStreamInterface
\* Each method takes the handle's extractor and returns the value returned
\* (ret), the extractor afterwards (e) and the calls made (ev).
RECURSIVE nthLoop(_, _), forEachLoop(_), countLoop(_, _), anyLoop(_, _), allLoop(_, _),
          foldLoop(_, _), collectLoop(_, _)

\* BaseStreamInterface::next
next(e) ==
    Bind(advance(e), LAMBDA r :
        IF r.ok
        THEN Bind(get(r.e), LAMBDA g : [ret |-> Some(g.v), e |-> g.e, ev |-> r.ev \o g.ev])
        ELSE [ret |-> nullopt, e |-> r.e, ev |-> r.ev])

\* while (n && extractor.advance()) --n;
nthLoop(e, n) ==
    IF n # 0
    THEN Bind(advance(e), LAMBDA r :
             IF r.ok
             THEN Bind(nthLoop(r.e, DecSizeT(n)), LAMBDA rest : [rest EXCEPT !.ev = r.ev \o @])
             ELSE [e |-> r.e, ev |-> r.ev])
    ELSE [e |-> e, ev |-> <<>>]

\* mutant: n counted from one
nthOneBased(e, n) ==
    Bind(nthLoop(e, DecSizeT(n)), LAMBDA l :
        Bind(next(l.e), LAMBDA r : [r EXCEPT !.ev = l.ev \o @]))

\* BaseStreamInterface::nth
nth(e, n) ==
    Bind(nthLoop(e, n), LAMBDA l :
        Bind(next(l.e), LAMBDA r : [r EXCEPT !.ev = l.ev \o @]))

forEachLoop(e) ==
    Bind(advance(e), LAMBDA r :
        IF r.ok
        THEN Bind(get(r.e), LAMBDA g :
                 Bind(forEachLoop(g.e), LAMBDA rest :
                     [rest EXCEPT !.ev = r.ev \o g.ev \o <<<<"callable", g.v>>>> \o @]))
        ELSE [ret |-> nullopt, e |-> r.e, ev |-> r.ev])

\* mutant: the elements are gathered first and the callable runs afterwards
forEachBuffered(e) ==
    Bind(collectLoop(e, <<>>), LAMBDA c :
        [ret |-> nullopt, e |-> c.e,
         ev |-> c.ev \o [i \in 1..Len(c.ret) |-> <<"callable", c.ret[i]>>]])

\* BaseStreamInterface::forEach (void: ret is empty)
forEach(e) == forEachLoop(e)

countLoop(e, counter) ==
    Bind(advance(e), LAMBDA r :
        IF r.ok
        THEN Bind(countLoop(r.e, counter + 1), LAMBDA rest : [rest EXCEPT !.ev = r.ev \o @])
        ELSE [ret |-> counter, e |-> r.e, ev |-> r.ev])

\* mutant: while (next()) ++counter;
RECURSIVE countViaNextLoop(_, _)
countViaNextLoop(e, counter) ==
    Bind(next(e), LAMBDA r :
        IF r.ret # nullopt
        THEN Bind(countViaNextLoop(r.e, counter + 1), LAMBDA rest :
                 [rest EXCEPT !.ev = r.ev \o @])
        ELSE [ret |-> counter, e |-> r.e, ev |-> r.ev])

countViaNext(e) == countViaNextLoop(e, 0)

\* BaseStreamInterface::count
count(e) == countLoop(e, 0)

anyLoop(e, p) ==
    Bind(advance(e), LAMBDA r :
        IF r.ok
        THEN Bind(get(r.e), LAMBDA g :
                 IF ApplyPredicate(p, g.v)
                 THEN [ret |-> TRUE, e |-> g.e, ev |-> r.ev \o g.ev]
                 ELSE Bind(anyLoop(g.e, p), LAMBDA rest :
                          [rest EXCEPT !.ev = r.ev \o g.ev \o @]))
        ELSE [ret |-> FALSE, e |-> r.e, ev |-> r.ev])

\* mutant: the loop runs on after a match
anyLoopNoShortCircuit(e, p, found) ==
    Bind(advance(e), LAMBDA r :
        IF r.ok
        THEN Bind(get(r.e), LAMBDA g :
                 Bind(anyLoopNoShortCircuit(g.e, p, found \/ ApplyPredicate(p, g.v)),
                      LAMBDA rest : [rest EXCEPT !.ev = r.ev \o g.ev \o @]))
        ELSE [ret |-> found, e |-> r.e, ev |-> r.ev])

anyNoShortCircuit(e, p) == anyLoopNoShortCircuit(e, p, FALSE)

\* BaseStreamInterface::any
any(e, p) == anyLoop(e, p)

allLoop(e, p) ==
    Bind(advance(e), LAMBDA r :
        IF r.ok
        THEN Bind(get(r.e), LAMBDA g :
                 IF ~ApplyPredicate(p, g.v)
                 THEN [ret |-> FALSE, e |-> g.e, ev |-> r.ev \o g.ev]
                 ELSE Bind(allLoop(g.e, p), LAMBDA rest :
                          [rest EXCEPT !.ev = r.ev \o g.ev \o @]))
        ELSE [ret |-> TRUE, e |-> r.e, ev |-> r.ev])

\* BaseStreamInterface::all
all(e, p) == allLoop(e, p)

\* the Fold callable of the caller: a + x
ApplyFold(a, x) == a + x

foldLoop(e, a) ==
    Bind(advance(e), LAMBDA r :
        IF r.ok
        THEN Bind(get(r.e), LAMBDA g :
                 Bind(foldLoop(g.e, ApplyFold(a, g.v)), LAMBDA rest :
                     [rest EXCEPT !.ev = r.ev \o g.ev \o @]))
        ELSE [ret |-> a, e |-> r.e, ev |-> r.ev])

\* BaseStreamInterface::fold
fold(e, a) == foldLoop(e, a)

collectLoop(e, cont) ==
    Bind(advance(e), LAMBDA r :
        IF r.ok
        THEN Bind(get(r.e), LAMBDA g :
                 Bind(collectLoop(g.e, Append(cont, g.v)), LAMBDA rest :
                     [rest EXCEPT !.ev = r.ev \o g.ev \o @]))
        ELSE [ret |-> cont, e |-> r.e, ev |-> r.ev])

\* BaseStreamInterface::collect
collect(e) == collectLoop(e, <<>>)

\* the chaining methods: the new extractor wraps a copy of the handle's
map(e, m) == MapStreamExtractor(e, m)
filter(e, p) == FilterStreamExtractor(e, p)
\* mutant: the new stage starts again from the beginning of the sequence
skipFromBegin(e, n) ==
    SkipFirstStreamExtractor(
        IF e.kind = "Sequence" THEN [e EXCEPT !.current = e.begin, !.next = e.begin] ELSE e,
        n)

skip(e, n) == SkipFirstStreamExtractor(e, n)
skipWhile(e, p) == SkipWhileStreamExtractor(e, p)
take(e, n) == TakeStreamExtractor(e, n)
takeWhile(e, p) == TakeWhileStreamExtractor(e, p)
inspect(e, i) == InspectStreamExtractor(e, i)

\* from(container)
from(c) == [extractor |-> SequenceStreamExtractor(c)]

\* ------------------------------------------------------------ the program
\* container : the sequence handed to from(); the streams borrow it
\* handles   : the BaseStreamInterface objects alive, in order of creation
\* meta      : per handle, how it was built and what has been seen of it
\*             (parent handle, elements the parent had yielded when the
\*             expression that built it began, chain of combinators, no
\*             element consumed yet on it or under it, advance seen to
\*             fail, elements seen)
\* last      : the call of the current statement: method, handle, argument,
\*             returned value, the handle's extractor and meta before the
\*             call, the calls made; NoCall between statements
Containers == UNION {[1..n -> Values] : n \in 0..MaxLen}

FreshMeta == [parent |-> 0, origin |-> 0, built |-> <<>>, fresh |-> TRUE,
              exhausted |-> FALSE, emitted |-> 0]

NoCall == [op |-> "none", h |-> 0, arg |-> 0, ret |-> nullopt, before |-> 0,
           was |-> FreshMeta, ev |-> <<>>]

Init ==
    /\ container \in Containers
    /\ handles = <<from(container)>>
    /\ meta = <<FreshMeta>>
    /\ last = NoCall

Handles == 1..Len(handles)

\* mutant: the stage refers to its receiver's extractor instead of owning a copy
StoreExtractorThrough(hs, h, e) ==
    IF meta[h].parent # 0
    THEN [hs EXCEPT ![h].extractor = e, ![meta[h].parent].extractor = e.source]
    ELSE [hs EXCEPT ![h].extractor = e]

\* the handle's member `extractor` after a method has run on it
StoreExtractor(hs, h, e) == [hs EXCEPT ![h].extractor = e]

\* outermost advance calls of a method that returned b
OuterAdvances(e, ev, b) ==
    Cardinality({i \in 1..Len(ev) : ev[i] = <<"advance", Depth(e), b>>})

\* a chaining method called on handle h: a new handle owning stage, which
\* wraps a copy of h's extractor.  keep: h is a named handle and stays alive
\* beside the new one; otherwise h is the temporary of a call chain
\* (from(c).skip(1).take(2)): no consuming method has been called on it, and
\* it is destroyed when the new handle exists.
Chain(h, keep, op, arg, stage) ==
    LET m == [parent |-> IF keep THEN h ELSE meta[h].parent,
              origin |-> IF keep THEN meta[h].emitted ELSE meta[h].origin,
              built |-> Append(meta[h].built, <<op, arg>>),
              fresh |-> meta[h].fresh, exhausted |-> FALSE, emitted |-> 0]
        new == IF keep THEN Len(handles) + 1 ELSE h
    IN  /\ last.op = "none"
        /\ Len(meta[h].built) < MaxDepth
        /\ keep => Len(handles) < MaxHandles
        /\ ~keep => (meta[h].emitted = 0 /\ ~meta[h].exhausted)
        /\ handles' = IF keep THEN Append(handles, [extractor |-> stage])
                               ELSE [handles EXCEPT ![h] = [extractor |-> stage]]
        /\ meta' = IF keep THEN Append(meta, m) ELSE [meta EXCEPT ![h] = m]
        /\ last' = [op |-> op, h |-> new, arg |-> arg, ret |-> nullopt,
                    before |-> handles[h].extractor, was |-> meta[h], ev |-> <<>>]
        /\ UNCHANGED container

\* a consuming method called on handle h, with result r
Consume(h, op, arg, r) ==
    /\ last.op = "none"
    /\ handles' = StoreExtractor(handles, h, r.e)
    /\ meta' = [meta EXCEPT ![h].fresh = FALSE,
                            ![h].exhausted = @ \/ OuterAdvances(r.e, r.ev, FALSE) > 0,
                            ![h].emitted = @ + OuterAdvances(r.e, r.ev, TRUE)]
    /\ last' = [op |-> op, h |-> h, arg |-> arg, ret |-> r.ret,
                before |-> handles[h].extractor, was |-> meta[h], ev |-> r.ev]
    /\ UNCHANGED container

CallMap(h, k, m) == Chain(h, k, "map", m, map(handles[h].extractor, m))
CallFilter(h, k, p) == Chain(h, k, "filter", p, filter(handles[h].extractor, p))
CallSkip(h, k, n) == Chain(h, k, "skip", n, skip(handles[h].extractor, n))
CallSkipWhile(h, k, p) == Chain(h, k, "skipWhile", p, skipWhile(handles[h].extractor, p))
CallTake(h, k, n) == Chain(h, k, "take", n, take(handles[h].extractor, n))
CallTakeWhile(h, k, p) == Chain(h, k, "takeWhile", p, takeWhile(handles[h].extractor, p))
CallInspect(h, k) == Chain(h, k, "inspect", "cb", inspect(handles[h].extractor, "cb"))

CallNext(h) == Consume(h, "next", 0, next(handles[h].extractor))
CallNth(h, n) == Consume(h, "nth", n, nth(handles[h].extractor, n))
CallForEach(h) == Consume(h, "forEach", 0, forEach(handles[h].extractor))
CallCount(h) == Consume(h, "count", 0, count(handles[h].extractor))
CallAny(h, p) == Consume(h, "any", p, any(handles[h].extractor, p))
CallAll(h, p) == Consume(h, "all", p, all(handles[h].extractor, p))
CallFold(h) == Consume(h, "fold", 0, fold(handles[h].extractor, 0))
CallCollect(h) == Consume(h, "collect", 0, collect(handles[h].extractor))

\* the statement ends: the value returned by its call is destroyed, and the
\* single thread goes on to its next statement
EndStatement ==
    /\ last.op # "none"
    /\ last' = NoCall
    /\ UNCHANGED <<container, handles, meta>>

\* one stream expression and the calls on its result: every handle but the
\* newest is a temporary
Next ==
    \/ \E h \in Handles, m \in MapFuncs : CallMap(h, FALSE, m)
    \/ \E h \in Handles, p \in Predicates : CallFilter(h, FALSE, p)
    \/ \E h \in Handles, n \in 0..MaxCount : CallSkip(h, FALSE, n)
    \/ \E h \in Handles, p \in Predicates : CallSkipWhile(h, FALSE, p)
    \/ \E h \in Handles, n \in 0..MaxCount : CallTake(h, FALSE, n)
    \/ \E h \in Handles, p \in Predicates : CallTakeWhile(h, FALSE, p)
    \/ \E h \in Handles : CallInspect(h, FALSE)
    \/ \E h \in Handles : CallNext(h)
    \/ \E h \in Handles, n \in 0..MaxCount : CallNth(h, n)
    \/ \E h \in Handles : CallForEach(h)
    \/ \E h \in Handles : CallCount(h)
    \/ \E h \in Handles, p \in Predicates : CallAny(h, p)
    \/ \E h \in Handles, p \in Predicates : CallAll(h, p)
    \/ \E h \in Handles : CallFold(h)
    \/ \E h \in Handles : CallCollect(h)
    \/ EndStatement

Spec == Init /\ [][Next]_vars

\* named handles: a chaining method leaves its receiver alive beside the
\* handle it returns
NextHandles ==
    \/ \E h \in Handles, m \in MapFuncs : CallMap(h, TRUE, m)
    \/ \E h \in Handles, p \in Predicates : CallFilter(h, TRUE, p)
    \/ \E h \in Handles, n \in 0..MaxCount : CallSkip(h, TRUE, n)
    \/ \E h \in Handles, p \in Predicates : CallSkipWhile(h, TRUE, p)
    \/ \E h \in Handles, n \in 0..MaxCount : CallTake(h, TRUE, n)
    \/ \E h \in Handles, p \in Predicates : CallTakeWhile(h, TRUE, p)
    \/ \E h \in Handles : CallInspect(h, TRUE)
    \/ \E h \in Handles : CallNext(h)
    \/ \E h \in Handles : CallCount(h)
    \/ \E h \in Handles : CallCollect(h)
    \/ EndStatement

SpecHandles == Init /\ [][NextHandles]_vars

\* one stream expression driven element by element: next() and nth() make
\* single advance calls, count() and collect() run it to the end
NextCalls ==
    \/ \E h \in Handles, m \in MapFuncs : CallMap(h, FALSE, m)
    \/ \E h \in Handles, p \in Predicates : CallFilter(h, FALSE, p)
    \/ \E h \in Handles, n \in 0..MaxCount : CallSkip(h, FALSE, n)
    \/ \E h \in Handles, p \in Predicates : CallSkipWhile(h, FALSE, p)
    \/ \E h \in Handles, n \in 0..MaxCount : CallTake(h, FALSE, n)
    \/ \E h \in Handles, p \in Predicates : CallTakeWhile(h, FALSE, p)
    \/ \E h \in Handles : CallInspect(h, FALSE)
    \/ \E h \in Handles : CallNext(h)
    \/ \E h \in Handles, n \in 0..MaxCount : CallNth(h, n)
    \/ \E h \in Handles : CallCount(h)
    \/ \E h \in Handles : CallCollect(h)
    \/ EndStatement

SpecCalls == Init /\ [][NextCalls]_vars

\* one stream expression and the terminal operations that run it to the end
NextTerminal ==
    \/ \E h \in Handles, m \in MapFuncs : CallMap(h, FALSE, m)
    \/ \E h \in Handles, p \in Predicates : CallFilter(h, FALSE, p)
    \/ \E h \in Handles, n \in 0..MaxCount : CallSkip(h, FALSE, n)
    \/ \E h \in Handles, p \in Predicates : CallSkipWhile(h, FALSE, p)
    \/ \E h \in Handles, n \in 0..MaxCount : CallTake(h, FALSE, n)
    \/ \E h \in Handles, p \in Predicates : CallTakeWhile(h, FALSE, p)
    \/ \E h \in Handles : CallInspect(h, FALSE)
    \/ \E h \in Handles : CallForEach(h)
    \/ \E h \in Handles : CallCount(h)
    \/ \E h \in Handles : CallFold(h)
    \/ \E h \in Handles : CallCollect(h)
    \/ EndStatement

SpecTerminal == Init /\ [][NextTerminal]_vars

\* a named handle h (the first) consumed with next(), and one expression of
\* the form h.skip(a).take(b) built on it: the first chaining call leaves h
\* alive beside its result, the calls that follow are made on that
\* temporary result
NextPartial ==
    \/ \E n \in 0..MaxCount : Len(handles) = 1 /\ CallSkip(1, TRUE, n)
    \/ \E n \in 0..MaxCount : Len(handles) = 1 /\ CallTake(1, TRUE, n)
    \/ \E h \in Handles \ {1}, n \in 0..MaxCount : CallSkip(h, FALSE, n)
    \/ \E h \in Handles \ {1}, n \in 0..MaxCount : CallTake(h, FALSE, n)
    \/ \E h \in Handles : CallNext(h)
    \/ \E h \in Handles : CallCollect(h)
    \/ EndStatement

SpecPartial == Init /\ [][NextPartial]_vars

\* ------------------------------------------------- direct-loop reference
Min(a, b) == IF a < b THEN a ELSE b
Max(a, b) == IF a > b THEN a ELSE b

\* positions of s whose element fails p
Failing(s, p) == {i \in 1..Len(s) : ~ApplyPredicate(p, s[i])}

\* length of the longest prefix of s that satisfies p
PrefixLen(s, p) ==
    IF Failing(s, p) = {} THEN Len(s)
    ELSE (CHOOSE i \in Failing(s, p) : \A j \in Failing(s, p) : i <= j) - 1

RefSkip(s, n) == SubSeq(s, n + 1, Len(s))
RefTake(s, n) == SubSeq(s, 1, Min(n, Len(s)))
RefSkipWhile(s, p) == SubSeq(s, PrefixLen(s, p) + 1, Len(s))
RefTakeWhile(s, p) == SubSeq(s, 1, PrefixLen(s, p))
RefFilter(s, p) == LET Keep(x) == ApplyPredicate(p, x) IN SelectSeq(s, Keep)
RefMap(s, f) == [i \in 1..Len(s) |-> ApplyMapFunc(f, s[i])]

RefStage(s, st) ==
    CASE st[1] = "skip" -> RefSkip(s, st[2])
      [] st[1] = "take" -> RefTake(s, st[2])
      [] st[1] = "skipWhile" -> RefSkipWhile(s, st[2])
      [] st[1] = "takeWhile" -> RefTakeWhile(s, st[2])
      [] st[1] = "filter" -> RefFilter(s, st[2])
      [] st[1] = "map" -> RefMap(s, st[2])
      [] OTHER -> s

RECURSIVE Reference(_, _)
Reference(s, built) ==
    IF built = <<>> THEN s
    ELSE RefStage(Reference(s, SubSeq(built, 1, Len(built) - 1)), built[Len(built)])

\* the latest call
ConsumingOps == {"next", "nth", "forEach", "count", "any", "all", "fold", "collect"}
LastHandle == handles[last.h].extractor
LastBuilt == meta[last.h].built
LastTop == LastBuilt[Len(LastBuilt)]

\* what the extractor e would still yield
Remaining(e) == collect(e).ret

\* the elements of the container the source extractor src has not consumed
Unconsumed(src) == SubSeq(container, src.next, Len(container))

\* ------------------------------------------------------------------ claims

\* C1: collect() on a fresh stream built by any chain of combinators over the
\* container returns exactly what the direct-loop reference of that chain
\* returns: same length, same element at every position.
C1_CollectMatchesReference ==
    (last.op = "collect" /\ last.was.fresh)
        => last.ret = Reference(container, LastBuilt)

C1_Witness ==
    /\ last.op = "collect" /\ last.was.fresh
    /\ LastBuilt = <<<<"filter", "isEven">>, <<"map", "plusOne">>>>
    /\ container = <<1, 2>>
    /\ last.ret = <<3>>

\* C2: once the outermost advance of a handle has returned false (next()
\* returned empty, or a consuming method ran to completion), no later call
\* on that handle gets true from advance, and every later next() returns
\* empty.
C2_ExhaustionIsPermanent ==
    (last.op \in ConsumingOps /\ last.was.exhausted)
        => /\ OuterAdvances(last.before, last.ev, TRUE) = 0
           /\ last.op = "next" => last.ret = nullopt

C2_Witness ==
    /\ last.op = "next" /\ last.was.exhausted
    /\ LastBuilt = <<<<"takeWhile", "isEven">>>>
    /\ container = <<1, 2>>
    /\ LastHandle.source.next = 2
    /\ last.ret = nullopt

\* C3 as claimed: after takeWhile(p) over the container has been driven to
\* the end, what it emitted followed by what its upstream has not consumed
\* is the container.
C3_Original ==
    (last.op = "collect" /\ last.was.fresh /\ Len(LastBuilt) = 1 /\ LastTop[1] = "takeWhile")
        => last.ret \o Unconsumed(LastHandle.source) = container

\* C3 amended: what takeWhile(p) emitted, followed by the first element that
\* fails p (when there is one: the stage consumes and drops it), followed by
\* what its upstream has not consumed, is the container; every emitted
\* element satisfies p.
C3_PartitionWithDropped ==
    (last.op = "collect" /\ last.was.fresh /\ Len(LastBuilt) = 1 /\ LastTop[1] = "takeWhile")
        => LET p == LastTop[2]
               k == PrefixLen(container, p)
               dropped == IF k < Len(container) THEN <<container[k + 1]>> ELSE <<>>
           IN  /\ last.ret \o dropped \o Unconsumed(LastHandle.source) = container
               /\ \A i \in 1..Len(last.ret) : ApplyPredicate(p, last.ret[i])

C3_Witness ==
    /\ last.op = "collect" /\ last.was.fresh
    /\ LastBuilt = <<<<"takeWhile", "isEven">>>>
    /\ container = <<1, 2>>
    /\ last.ret = <<>>
    /\ Unconsumed(LastHandle.source) = <<2>>

\* C4: from(S).take(n).count() is min(n, |S|), and a handle whose outermost
\* stage is take(n), over any upstream, emits at most n elements in total.
C4_TakeCount ==
    /\ (last.op = "count" /\ last.was.fresh /\ Len(LastBuilt) = 1 /\ LastTop[1] = "take")
          => last.ret = Min(LastTop[2], Len(container))
    /\ \A h \in Handles :
          (meta[h].built # <<>> /\ meta[h].built[Len(meta[h].built)][1] = "take")
              => meta[h].emitted <= meta[h].built[Len(meta[h].built)][2]

C4_Witness ==
    /\ last.op = "count" /\ last.was.fresh
    /\ LastBuilt = <<<<"take", 1>>>>
    /\ Len(container) = 2
    /\ last.ret = 1

\* C5: from(S).skip(n).count() is max(0, |S| - n), also when n > |S|.
C5_SkipCount ==
    (last.op = "count" /\ last.was.fresh /\ Len(LastBuilt) = 1 /\ LastTop[1] = "skip")
        => last.ret = Max(0, Len(container) - LastTop[2])

C5_Witness ==
    /\ last.op = "count" /\ last.was.fresh
    /\ LastBuilt = <<<<"skip", 1>>>>
    /\ Len(container) = 0
    /\ last.ret = 0

\* C6: all(p) on a handle whose outermost stage is filter(p) returns true,
\* whatever the upstream and however many elements in a row are rejected.
C6_FilterThenAll ==
    (last.op = "all" /\ LastBuilt # <<>> /\ LastTop = <<"filter", last.arg>>)
        => last.ret = TRUE

C6_Witness ==
    /\ last.op = "all" /\ last.arg = "isEven"
    /\ LastBuilt = <<<<"filter", "isEven">>>>
    /\ container = <<1, 2>>
    /\ last.was.fresh
    /\ last.ret = TRUE

\* C7: collect() on a handle whose outermost stage is map(f) returns f
\* applied, element by element and in order, to what collect() returns on
\* the same stream without the map stage.
C7_MapCollect ==
    (last.op = "collect" /\ LastBuilt # <<>> /\ LastTop[1] = "map")
        => last.ret = RefMap(collect(last.before.source).ret, LastTop[2])

C7_Witness ==
    /\ last.op = "collect"
    /\ LastBuilt = <<<<"skip", 1>>, <<"map", "plusOne">>>>
    /\ container = <<1, 2>>
    /\ last.ret = <<3>>

\* C8: a chaining method called on a handle, and every method called on
\* another handle afterwards, leaves the handle's extractor as it was.
C8_ReceiverUnchanged ==
    [][\A h \in Handles : last'.h # h => handles'[h] = handles[h]]_vars

C8_Witness ==
    /\ Len(handles) = 2
    /\ meta[2].parent = 1 /\ meta[2].emitted = 2
    /\ meta[1].fresh
    /\ Len(container) = 2
    /\ handles[1] = from(container)

\* C9: any(p) returns true iff an element the handle would still yield
\* satisfies p; then the handle is left just after the first such element;
\* when it returns false the handle is exhausted.
C9_Any ==
    (last.op = "any")
        => LET R == Remaining(last.before)
               hit == {i \in 1..Len(R) : ApplyPredicate(last.arg, R[i])}
           IN  IF hit # {}
               THEN /\ last.ret = TRUE
                    /\ LET first == CHOOSE i \in hit : \A j \in hit : i <= j
                       IN  Remaining(LastHandle) = SubSeq(R, first + 1, Len(R))
               ELSE /\ last.ret = FALSE
                    /\ Remaining(LastHandle) = <<>>
                    /\ next(LastHandle).ret = nullopt
                    /\ meta[last.h].exhausted

C9_Witness ==
    /\ last.op = "any" /\ last.arg = "isOdd" /\ last.ret = TRUE
    /\ LastBuilt = <<>>
    /\ container = <<1, 2>>
    /\ last.was.fresh
    /\ Remaining(LastHandle) = <<2>>

\* C10: nth(n) on a handle that would still yield k elements returns the
\* one at offset n and leaves k - n - 1 when n < k, returns empty and leaves
\* the handle exhausted when n >= k; nth(0) does what next() does.
C10_Nth ==
    (last.op = "nth")
        => LET R == Remaining(last.before)
               k == Len(R)
               n == last.arg
           IN  /\ IF n < k
                  THEN /\ last.ret = Some(R[n + 1])
                       /\ Remaining(LastHandle) = SubSeq(R, n + 2, k)
                  ELSE /\ last.ret = nullopt
                       /\ Remaining(LastHandle) = <<>>
                       /\ meta[last.h].exhausted
               /\ n = 0 => /\ last.ret = next(last.before).ret
                           /\ LastHandle = next(last.before).e

C10_Witness ==
    /\ last.op = "nth" /\ last.arg = 1
    /\ LastBuilt = <<<<"map", "plusOne">>>>
    /\ container = <<1, 2>>
    /\ last.was.fresh
    /\ last.ret = Some(3)
    /\ Remaining(LastHandle) = <<>>

\* ------------------------------------------------- the calls of a statement
\* the stage of the chain e that sits at depth d (the source extractor is 1)
RECURSIVE StageAt(_, _)
StageAt(e, d) == IF Depth(e) = d THEN e ELSE StageAt(e.source, d)

\* positions in the log ev of the calls of `name` on the stage at depth d
CallsAt(ev, name, d) == {i \in 1..Len(ev) : ev[i][1] = name /\ ev[i][2] = d}

\* how many times `name` was called on the stage at depth d
Calls(ev, name, d) == Cardinality(CallsAt(ev, name, d))

\* depths of the stages built by the chaining method op in the chain of the
\* latest call
StagesOf(op) == {d \in 2..(Len(LastBuilt) + 1) : LastBuilt[d - 1][1] = op}

\* C11: a Take(N) stage's remaining count stays within 0..N and goes down by
\* exactly the number of upstream advance calls the stage makes, so those
\* calls number at most N in total; once the count is zero every advance on
\* the stage returns false, makes no upstream call and leaves the stage, its
\* upstream and the count of zero as they were.
C11_TakeUpstreamCalls ==
    (last.op \in ConsumingOps)
        => \A d \in StagesOf("take") :
              LET b == StageAt(last.before, d)
                  a == StageAt(LastHandle, d)
                  N == LastBuilt[d - 1][2]
              IN  /\ a.limit \in 0..N
                  /\ b.limit - a.limit = Calls(last.ev, "advance", d - 1)
                  /\ b.limit = 0 =>
                        /\ a = b
                        /\ \A i \in CallsAt(last.ev, "advance", d) : last.ev[i][3] = FALSE

C11_Witness ==
    /\ last.op = "next" /\ last.ret = nullopt
    /\ LastBuilt = <<<<"take", 1>>>>
    /\ Len(container) = 2
    /\ last.before.limit = 0 /\ last.was.emitted = 1
    /\ last.ev = <<<<"advance", 2, FALSE>>>>
    /\ LastHandle = last.before

\* C12: once an advance on a TakeWhile(p) stage has returned false the stage
\* has stopped (taking is false) and stays stopped: every later advance on
\* it, in the same call or a later one, returns false, whatever its upstream
\* still holds; collect() through an outermost takeWhile(p) that has not
\* stopped returns the longest prefix of what its upstream would yield that
\* satisfies p, so the first failing element and all after it are left out.
C12_TakeWhileStaysStopped ==
    (last.op \in ConsumingOps)
        => /\ \A d \in StagesOf("takeWhile") :
                 LET b == StageAt(last.before, d)
                     a == StageAt(LastHandle, d)
                     adv == CallsAt(last.ev, "advance", d)
                 IN  /\ \A i \in adv : last.ev[i][3] = FALSE => ~a.taking
                     /\ \A i, j \in adv : (i < j /\ last.ev[i][3] = FALSE) => last.ev[j][3] = FALSE
                     /\ ~b.taking => /\ ~a.taking
                                     /\ \A i \in adv : last.ev[i][3] = FALSE
           /\ (last.op = "collect" /\ last.before.kind = "TakeWhile")
                 => last.ret = IF last.before.taking
                               THEN RefTakeWhile(Remaining(last.before.source),
                                                 last.before.predicate)
                               ELSE <<>>

C12_Witness ==
    /\ last.op = "collect" /\ last.ret = <<>>
    /\ LastBuilt = <<<<"takeWhile", "isOdd">>>>
    /\ container = <<2, 1>>
    /\ ~last.before.taking
    /\ Unconsumed(last.before.source) = <<1>>
    /\ last.ev = <<<<"advance", 2, FALSE>>>>

\* the log entries that belong to the advance call logged at position i on
\* the stage at depth d: all up to the next advance call on that stage
Within(ev, d, i) ==
    LET later == {j \in CallsAt(ev, "advance", d) : j > i}
    IN  IF later = {} THEN (i + 1)..Len(ev)
        ELSE (i + 1)..((CHOOSE j \in later : \A m \in later : j <= m) - 1)

\* C13: an advance on a TakeWhile stage that has not stopped calls its
\* upstream's advance exactly once, and evaluates the predicate once when
\* that call returned true and not at all when it returned false; an advance
\* on a stopped TakeWhile stage calls neither.
C13_TakeWhileOneUpstreamCall ==
    (last.op \in ConsumingOps)
        => \A d \in StagesOf("takeWhile") :
              \A i \in CallsAt(last.ev, "advance", d) :
                  LET stopped == \/ ~StageAt(last.before, d).taking
                                 \/ \E j \in CallsAt(last.ev, "advance", d) :
                                        j < i /\ last.ev[j][3] = FALSE
                      up == CallsAt(last.ev, "advance", d - 1) \cap Within(last.ev, d, i)
                      pr == CallsAt(last.ev, "predicate", d) \cap Within(last.ev, d, i)
                  IN  IF stopped
                      THEN up = {} /\ pr = {}
                      ELSE /\ Cardinality(up) = 1
                           /\ Cardinality(pr) = IF \A k \in up : last.ev[k][3] THEN 1 ELSE 0

C13_Witness ==
    /\ last.op = "nth" /\ last.arg = 1 /\ last.ret = nullopt
    /\ LastBuilt = <<<<"takeWhile", "isEven">>>>
    /\ container = <<1, 2>>
    /\ last.was.fresh
    /\ Calls(last.ev, "advance", 2) = 2
    /\ Calls(last.ev, "advance", 1) = 1
    /\ Calls(last.ev, "predicate", 2) = 1

\* C14: an advance on a SkipWhile(p) stage in skipping mode evaluates p once
\* on each element its upstream yields, up to and including the first that
\* fails p, and returns true exactly when one failed; that element is the
\* one emitted and skipping is over for good.  Out of skipping mode every
\* advance makes one upstream advance, returns its result and evaluates no
\* predicate, so collect() yields everything from the first failing element
\* on, later elements that satisfy p included.  When the upstream runs out
\* during skipping the stage stays in skipping mode and every advance on it
\* returns false.
C14_SkipWhile ==
    (last.op \in ConsumingOps)
        => /\ \A d \in StagesOf("skipWhile") :
                 LET b == StageAt(last.before, d)
                     a == StageAt(LastHandle, d)
                     adv == CallsAt(last.ev, "advance", d)
                     left == {i \in adv : last.ev[i][3]}
                 IN  /\ a.skipping = (b.skipping /\ left = {})
                     /\ (b.skipping /\ ~advance(b.source).ok)
                            => a.skipping /\ left = {}
                     /\ \A i \in adv :
                           LET skipping == b.skipping /\ \A j \in left : j >= i
                               up == CallsAt(last.ev, "advance", d - 1) \cap Within(last.ev, d, i)
                               pr == CallsAt(last.ev, "predicate", d) \cap Within(last.ev, d, i)
                               fails == {k \in pr : ~ApplyPredicate(b.predicate, last.ev[k][3])}
                           IN  IF skipping
                               THEN /\ Cardinality(pr) = Cardinality({k \in up : last.ev[k][3]})
                                    /\ last.ev[i][3] = (fails # {})
                                    /\ \A k \in fails : \A m \in pr : m <= k
                                    /\ Cardinality(fails) <= 1
                               ELSE /\ Cardinality(up) = 1
                                    /\ \A k \in up : last.ev[k][3] = last.ev[i][3]
                                    /\ pr = {}
           /\ (last.op = "collect" /\ last.before.kind = "SkipWhile")
                 => last.ret = IF last.before.skipping
                               THEN RefSkipWhile(Remaining(last.before.source),
                                                 last.before.predicate)
                               ELSE Remaining(last.before.source)

C14_Witness ==
    /\ last.op = "collect" /\ last.ret = <<2, 1>>
    /\ LastBuilt = <<<<"skipWhile", "isOdd">>>>
    /\ container = <<2, 1>>
    /\ last.was.fresh
    /\ Calls(last.ev, "predicate", 2) = 1
    /\ Calls(last.ev, "advance", 1) = 3
    /\ ~LastHandle.skipping

\* C15: an advance on a Skip(N) stage whose counter stands at c makes at most
\* c + 1 upstream advance calls, stops at the first that returns false, and
\* returns true exactly when all c + 1 returned true; the counter goes down
\* by one per upstream call of the loop and never below zero.  So a fresh
\* Skip(N) over an upstream that yields more than N elements makes N + 1
\* upstream calls on its first advance and one on every later advance, and
\* with N = 0 every advance makes one upstream call and returns its result.
C15_SkipUpstreamCalls ==
    (last.op \in ConsumingOps)
        => \A d \in StagesOf("skip") :
              LET b == StageAt(last.before, d)
                  a == StageAt(LastHandle, d)
                  N == LastBuilt[d - 1][2]
                  adv == CallsAt(last.ev, "advance", d)
                  ups == CallsAt(last.ev, "advance", d - 1)
              IN  /\ a.skipCount = Max(b.skipCount - Cardinality(ups), 0)
                  /\ a.skipCount \in 0..N
                  /\ \A i \in adv :
                        LET c == Max(b.skipCount - Cardinality({k \in ups : k < i}), 0)
                            up == ups \cap Within(last.ev, d, i)
                            failed == {k \in up : ~last.ev[k][3]}
                        IN  /\ Cardinality(up) \in 1..(c + 1)
                            /\ \A k \in failed : \A m \in up : m <= k
                            /\ last.ev[i][3] = (Cardinality(up) = c + 1 /\ failed = {})
                            /\ (last.was.fresh /\ Len(Remaining(b.source)) > N)
                                  => IF \A j \in adv : i <= j
                                     THEN Cardinality(up) = N + 1 /\ last.ev[i][3]
                                     ELSE Cardinality(up) = 1

C15_Witness ==
    /\ last.op = "collect" /\ last.ret = <<2>>
    /\ LastBuilt = <<<<"skip", 1>>>>
    /\ container = <<1, 2>>
    /\ last.was.fresh
    /\ last.ev[1] = <<"advance", 2, TRUE>>
    /\ last.ev[2] = <<"advance", 1, TRUE>>
    /\ last.ev[3] = <<"advance", 1, TRUE>>
    /\ Calls(last.ev, "advance", 1) = 3
    /\ LastHandle.skipCount = 0

\* the calls of the log that the caller can observe: the inspect callbacks
\* and the callable of forEach, in the order they were made
Observable(ev) ==
    LET Seen(x) == x[1] \in {"inspector", "callable"} IN SelectSeq(ev, Seen)

\* the arguments the callable of forEach was called with, in order
CallableArgs(ev) ==
    LET Called(x) == x[1] = "callable"
        calls == SelectSeq(ev, Called)
    IN  [i \in 1..Len(calls) |-> calls[i][2]]

\* C16: forEach(g) calls g once on each element the handle yields, in
\* order; on from(S).inspect(cb) the observable calls are cb(e1), g(e1),
\* cb(e2), g(e2), ..., cb(en), g(en) over the elements not yet consumed.
C16_ForEachOrder ==
    (last.op = "forEach")
        => /\ CallableArgs(last.ev) = Remaining(last.before)
           /\ LastBuilt = <<<<"inspect", "cb">>>>
                 => LET S == Unconsumed(last.before.source)
                    IN  Observable(last.ev) =
                            [k \in 1..(2 * Len(S)) |->
                                IF k % 2 = 1 THEN <<"inspector", 2, S[(k + 1) \div 2]>>
                                             ELSE <<"callable", S[k \div 2]>>]

C16_Witness ==
    /\ last.op = "forEach"
    /\ LastBuilt = <<<<"inspect", "cb">>>>
    /\ container = <<1, 2>>
    /\ last.was.fresh
    /\ Observable(last.ev) = <<<<"inspector", 2, 1>>, <<"callable", 1>>,
                               <<"inspector", 2, 2>>, <<"callable", 2>>>>

\* the arguments the inspect callback of the stage at depth d was called
\* with, in order
InspectorArgs(ev, d) ==
    LET Called(x) == x[1] = "inspector" /\ x[2] = d
        calls == SelectSeq(ev, Called)
    IN  [i \in 1..Len(calls) |-> calls[i][3]]

\* each element of s once, and once more when it satisfies p
RECURSIVE OnceOrTwice(_, _)
OnceOrTwice(s, p) ==
    IF s = <<>> THEN <<>>
    ELSE (IF ApplyPredicate(p, Head(s)) THEN <<Head(s), Head(s)>> ELSE <<Head(s)>>)
             \o OnceOrTwice(Tail(s), p)

\* C17: when from(S).inspect(cb).filter(p) is run to the end by forEach,
\* collect or fold, cb is called on the elements in order, once on each
\* element that fails p and twice in a row on each element that satisfies p
\* (Filter's advance fetches it, then the consuming method does); so cb runs
\* once per element only when no element passes.
C17_InspectUnderFilter ==
    (/\ last.op \in {"forEach", "collect", "fold"}
     /\ Len(LastBuilt) = 2
     /\ LastBuilt[1] = <<"inspect", "cb">>
     /\ LastBuilt[2][1] = "filter")
        => LET S == Unconsumed(last.before.source.source)
               p == LastBuilt[2][2]
               passing == {i \in 1..Len(S) : ApplyPredicate(p, S[i])}
           IN  /\ InspectorArgs(last.ev, 2) = OnceOrTwice(S, p)
               /\ Calls(last.ev, "inspector", 2) = Len(S) + Cardinality(passing)
               /\ (Calls(last.ev, "inspector", 2) = Len(S)) = (passing = {})

C17_Witness ==
    /\ last.op = "fold" /\ last.ret = 2
    /\ LastBuilt = <<<<"inspect", "cb">>, <<"filter", "isEven">>>>
    /\ container = <<1, 2>>
    /\ last.was.fresh
    /\ InspectorArgs(last.ev, 2) = <<1, 2, 2>>

\* C18: count() never calls get on the handle's extractor; on a chain built
\* only of map, inspect, skip and take no get is called on any stage, so the
\* map function and the inspect callback are not invoked at all, and count()
\* still returns the number of elements the chain yields.
C18_CountCallsNoGet ==
    (last.op = "count")
        => /\ Calls(last.ev, "get", Depth(last.before)) = 0
           /\ last.ret = Len(Remaining(last.before))
           /\ (\A k \in 1..Len(LastBuilt) :
                   LastBuilt[k][1] \in {"map", "inspect", "skip", "take"})
                 => /\ \A i \in 1..Len(last.ev) : last.ev[i][1] = "advance"
                    /\ last.was.fresh => last.ret = Len(Reference(container, LastBuilt))

C18_Witness ==
    /\ last.op = "count" /\ last.ret = 2
    /\ LastBuilt = <<<<"map", "plusOne">>, <<"inspect", "cb">>>>
    /\ container = <<1, 2>>
    /\ last.was.fresh
    /\ Len(last.ev) = 9
    /\ LastHandle.source.value = 0

\* C19: a stage built on a partially consumed handle starts where that
\* handle stands: when k elements of S had been taken from h with next(),
\* collect() on h.skip(a).take(b) returns S[k+a .. k+a+b) clipped to S (and
\* on any chain of skip and take built on h, what the chain yields over the
\* elements h had not consumed); consuming the new stream does not move h,
\* whose position is the number of elements taken from h itself.
C19_ChainFromCurrentPosition ==
    /\ handles[1].extractor.kind = "Sequence"
    /\ handles[1].extractor.next = 1 + meta[1].emitted
    /\ (/\ last.op = "collect" /\ last.h # 1
        /\ last.was.emitted = 0 /\ ~last.was.exhausted)
          => LET k == last.was.origin
                 S == container
             IN  /\ last.ret = Reference(SubSeq(S, k + 1, Len(S)), LastBuilt)
                 /\ (Len(LastBuilt) = 2 /\ LastBuilt[1][1] = "skip" /\ LastBuilt[2][1] = "take")
                       => LET a == LastBuilt[1][2]
                              b == LastBuilt[2][2]
                          IN  last.ret = SubSeq(S, k + a + 1, Min(k + a + b, Len(S)))

C19_Witness ==
    /\ last.op = "collect" /\ last.h = 2 /\ last.ret = <<2>>
    /\ LastBuilt = <<<<"skip", 0>>, <<"take", 1>>>>
    /\ container = <<1, 2>>
    /\ last.was.origin = 1
    /\ last.was.emitted = 0
    /\ meta[1].emitted = 1
    /\ handles[1].extractor.next = 2
====
